---- MODULE Spec2Model ----
(***************************************************************************)
(* Model of gfp_core: FieldDescriptor (core/src/descriptor.rs) and the     *)
(* Field capability with its forwarding impls (core/src/lib.rs).           *)
(*                                                                         *)
(* A raw handle is the sequence of machine words that represent it:        *)
(* <<address>> for a pointer to a Sized type, <<address, metadata>> for a  *)
(* pointer to an unsized type (slice length or vtable address).  The       *)
(* union Pointer is the same words seen through differently typed fields.  *)
(* usize is scaled down to WordBits bits; all arithmetic on it keeps that  *)
(* width.                                                                  *)
(***************************************************************************)
EXTENDS Integers, Sequences, FiniteSets, TLC

\* Width of usize in the model.
WordBits == 3
\* Largest metadata value (slice length / vtable address) drawn for a handle.
MaxMeta == 1
\* Largest field offset drawn for the fields of Foo, Bar and Tap.
MaxFieldOffset == 2
\* Deepest nesting of references to a field capability.
MaxRefDepth == 2

Modulus == 2 ^ WordBits
Word == 0 .. (Modulus - 1)
Meta == 0 .. MaxMeta

\* Whether a pointee type is Sized (thin handle) or ?Sized (fat handle).
Kinds == {"Sized", "Unsized"}

\* Number of words of *const T / *mut T for a pointee of kind k.
WordsOf(k) == IF k = "Sized" THEN 1 ELSE 2

\* All raw handles to a pointee of kind k.
Handles(k) ==
  IF k = "Sized" THEN {<<a>> : a \in Word}
  ELSE {<<a, m>> : a \in Word, m \in Meta}

\* FieldDescriptor<Parent, Type>: the offset, and the two phantom type
\* parameters (only their kind matters to the arithmetic).
FieldDescriptor(o, pk, tk) == [offset |-> o, parent |-> pk, type |-> tk]

\* A descriptor can describe a field only if an unsized field lives in an
\* unsized parent: a Sized aggregate has no unsized field, and for such a pair
\* of type parameters fat_ptr_out would be read past the words that
\* Pointer { fat_ptr: parent } initialises.  The model draws no such pair.
ValidKinds(pk, tk) == tk = "Unsized" => pk = "Unsized"

(***************************************************************************)
(* union Pointer<T, U>                                                     *)
(***************************************************************************)
\* Pointer { fat_ptr: h } / Pointer { fat_ptr_mut: h }: the words of h.
Pointer(h) == h

\* Reading the fields ptr or ptr_mut: the first word.
Pointer_ptr(u) == u[1]

\* Faulty variant: the integer view reads the last word of the handle (its metadata
\* when it has one).
Pointer_int_last(u) == u[Len(u)]

\* Reading the field int: the first word.
Pointer_int(u) == u[1]

\* Faulty variant: the store also overwrites the metadata word.
Pointer_set_ptr_all(u, a) == [i \in DOMAIN u |-> a]

\* Writing the fields ptr or ptr_mut: the first word only.
Pointer_set_ptr(u, a) == [u EXCEPT ![1] = a]

\* Reading fat_ptr_out / fat_ptr_out_mut, a pointer to U of kind tk: the first
\* WordsOf(tk) words of the union.
Pointer_fat_ptr_out(u, tk) == SubSeq(u, 1, WordsOf(tk))

(***************************************************************************)
(* pointer arithmetic                                                      *)
(***************************************************************************)
\* Faulty variant: the addition saturates at the top of the address space.
saturating_add(a, o) == IF a + o < Modulus THEN a + o ELSE Modulus - 1

\* Faulty variant: the sum is not reduced to the width of usize.
unreduced_add(a, o) == a + o

\* <*const u8>::wrapping_add: addition modulo 2^w.
wrapping_add(a, o) == (a + o) % Modulus

\* Faulty variant: the unchecked addition steps one byte too far.
add_off_by_one(a, o) == IF a + o + 1 < Modulus THEN {a + o + 1} ELSE Word

\* <*const u8>::add: the sum when it fits the address space; undefined
\* behaviour otherwise, modelled as any address word.
add(a, o) == IF a + o < Modulus THEN {a + o} ELSE Word

(***************************************************************************)
(* impl FieldDescriptor                                                    *)
(***************************************************************************)
from_offset(o, pk, tk) == FieldDescriptor(o, pk, tk)

\* The outcome of a constructor call: a descriptor, or a panic.
Built(x) == [panicked |-> FALSE, desc |-> x]
Panicked(pk, tk) == [panicked |-> TRUE, desc |-> FieldDescriptor(0, pk, tk)]

\* The marker of an arithmetic-overflow panic among the results of usize_sub.
SubPanics == 0 - 1

\* Faulty variant: the operands of the subtraction are swapped.
usize_sub_swapped(a, b) ==
  IF b >= a THEN {b - a} ELSE {SubPanics, (b - a) % Modulus}

\* a - b on usize: the set of possible results.  When the difference is
\* negative the build decides: with overflow checks the subtraction panics,
\* without them it wraps.
usize_sub(a, b) ==
  IF a >= b THEN {a - b} ELSE {SubPanics, (a - b) % Modulus}

\* from_pointers(parent, field): the set of possible outcomes.
from_pointers(p, fld, pk, tk) ==
  {IF o = SubPanics THEN Panicked(pk, tk) ELSE Built(from_offset(o, pk, tk)) :
     o \in usize_sub(Pointer_int(Pointer(fld)), Pointer_int(Pointer(p)))}

\* The projectors.  The unchecked ones return the set of possible results.
project_raw_unchecked(self, p) ==
  {Pointer_fat_ptr_out(Pointer_set_ptr(Pointer(p), a), self.type) :
     a \in add(Pointer_ptr(Pointer(p)), self.offset)}

project_raw_mut_unchecked(self, p) ==
  {Pointer_fat_ptr_out(Pointer_set_ptr(Pointer(p), a), self.type) :
     a \in add(Pointer_ptr(Pointer(p)), self.offset)}

project_raw(self, p) ==
  Pointer_fat_ptr_out(
    Pointer_set_ptr(Pointer(p), wrapping_add(Pointer_ptr(Pointer(p)), self.offset)),
    self.type)

\* Faulty variant: the mutable projector forgets the offset.
project_raw_mut_no_offset(self, p) == Pointer_fat_ptr_out(Pointer(p), self.type)

project_raw_mut(self, p) ==
  Pointer_fat_ptr_out(
    Pointer_set_ptr(Pointer(p), wrapping_add(Pointer_ptr(Pointer(p)), self.offset)),
    self.type)

(***************************************************************************)
(* State                                                                   *)
(***************************************************************************)
VARIABLES
  d,       \* the descriptor under test (its offset is set once built)
  built,   \* how d was made: "none", "from_offset", "from_pointers", "panic"
  parent,  \* the raw handle on the parent
  field,   \* the raw handle on the field, given to from_pointers
  out,     \* the handle each projector returned, <<>> before it is called
  FIELDS,  \* the descriptors of Foo::FIELDS.bar, Bar::FIELDS.tap, Tap::FIELDS.val
  f,       \* the field capability under test
  iter     \* the Name iterator last returned by f.name(), and what it yielded

vars == <<d, built, parent, field, out, FIELDS, f, iter>>
descVars == <<d, built, field>>
capVars == <<FIELDS, f, iter>>

ProjOps ==
  {"project_raw", "project_raw_mut",
   "project_raw_unchecked", "project_raw_mut_unchecked"}

NotCalled == <<>>
NoneCalled == [op \in ProjOps |-> NotCalled]

Called(op) == out[op] # NotCalled

HasDescriptor == built \in {"from_offset", "from_pointers"}

\* Address and metadata components of a handle; a thin handle has no
\* metadata, written -1.
Address(h) == h[1]
NoMetadata == 0 - 1
Metadata(h) == IF Len(h) = 2 THEN h[2] ELSE NoMetadata

(***************************************************************************)
(* The projectors, as calls on the descriptor d.                           *)
(***************************************************************************)
ProjectRaw ==
  /\ HasDescriptor
  /\ ~Called("project_raw")
  /\ out' = [out EXCEPT !["project_raw"] = project_raw(d, parent)]
  /\ UNCHANGED <<d, built, parent, field, capVars>>

ProjectRawMut ==
  /\ HasDescriptor
  /\ ~Called("project_raw_mut")
  /\ out' = [out EXCEPT !["project_raw_mut"] = project_raw_mut(d, parent)]
  /\ UNCHANGED <<d, built, parent, field, capVars>>

ProjectRawUnchecked ==
  /\ HasDescriptor
  /\ ~Called("project_raw_unchecked")
  /\ \E r \in project_raw_unchecked(d, parent) :
       out' = [out EXCEPT !["project_raw_unchecked"] = r]
  /\ UNCHANGED <<d, built, parent, field, capVars>>

ProjectRawMutUnchecked ==
  /\ HasDescriptor
  /\ ~Called("project_raw_mut_unchecked")
  /\ \E r \in project_raw_mut_unchecked(d, parent) :
       out' = [out EXCEPT !["project_raw_mut_unchecked"] = r]
  /\ UNCHANGED <<d, built, parent, field, capVars>>

(***************************************************************************)
(* Field capabilities.  A capability is a record tagged by its impl:       *)
(*   "field"   a derived field of Foo { bar: Bar }, Bar { tap: Tap } or    *)
(*             Tap { val: u32 }, backed by its descriptor in FIELDS;       *)
(*   "chain"   Chain { outer, inner };                                     *)
(*   "ref"     &F;          "refmut"   &mut F.                             *)
(***************************************************************************)
NoFields == <<>>
NoField == [tag |-> "none"]
NoIter == [started |-> FALSE, again |-> FALSE, rest |-> <<>>, yielded |-> <<>>]

Foo_bar == [tag |-> "field", name |-> "bar", Parent |-> "Foo", Type |-> "Bar"]
Bar_tap == [tag |-> "field", name |-> "tap", Parent |-> "Bar", Type |-> "Tap"]
Tap_val == [tag |-> "field", name |-> "val", Parent |-> "Tap", Type |-> "u32"]

\* The descriptor sets a layout of Foo, Bar and Tap can give: u32 is Sized,
\* and an unsized field makes its aggregate unsized.
FieldSets(maxVal) ==
  {[bar |-> from_offset(o1, kFoo, kBar),
    tap |-> from_offset(o2, kBar, kTap),
    val |-> from_offset(o3, kTap, "Sized")] :
     <<o1, o2, o3>> \in (0 .. MaxFieldOffset) \X (0 .. MaxFieldOffset) \X (0 .. maxVal),
     <<kFoo, kBar, kTap>> \in
       {k \in Kinds \X Kinds \X Kinds :
          ValidKinds(k[1], k[2]) /\ ValidKinds(k[2], k[3])}}

Ref(F) == [tag |-> "ref", to |-> F]
RefMut(F) == [tag |-> "refmut", to |-> F]

RECURSIVE Field_Parent(_), Field_Type(_), RefDepth(_), Pointee(_)
RECURSIVE Field_name(_), Field_project_raw(_, _), Field_project_raw_mut(_, _)

\* Chain::new(outer, inner).
Chain_new(outer, inner) == [tag |-> "chain", outer |-> outer, inner |-> inner]

\* Faulty variant: chaining onto a chain keeps only the inner half of that chain.
chain_drops_outer(self, g) ==
  Chain_new(IF self.tag = "chain" THEN self.inner ELSE self, g)

\* Faulty variant: chaining returns its argument alone.
chain_inner_only(self, g) == g

\* Field::chain.
chain(self, g) == Chain_new(self, g)

\* The associated types Parent and Type.
Field_Parent(F) ==
  CASE F.tag = "field" -> F.Parent
    [] F.tag = "chain" -> Field_Parent(F.outer)
    [] OTHER -> Field_Parent(F.to)

Field_Type(F) ==
  CASE F.tag = "field" -> F.Type
    [] F.tag = "chain" -> Field_Type(F.inner)
    [] OTHER -> Field_Type(F.to)

\* The number of references in F, and the capability under all the
\* references at the top of F.
RefDepth(F) ==
  CASE F.tag = "field" -> 0
    [] F.tag = "chain" -> RefDepth(F.outer) + RefDepth(F.inner)
    [] OTHER -> 1 + RefDepth(F.to)

Pointee(F) == IF F.tag \in {"ref", "refmut"} THEN Pointee(F.to) ELSE F

\* A derived field: one name segment, projection by its descriptor.
Derived_name(F) == <<F.name>>
Derived_project_raw(F, ptr) == project_raw(FIELDS[F.name], ptr)
Derived_project_raw_mut(F, ptr) == project_raw_mut(FIELDS[F.name], ptr)

\* impl Field for Chain.
Chain_name(F) == Field_name(F.outer) \o Field_name(F.inner)

Chain_project_raw(F, ptr) ==
  Field_project_raw(F.inner, Field_project_raw(F.outer, ptr))

Chain_project_raw_mut(F, ptr) ==
  Field_project_raw_mut(F.inner, Field_project_raw_mut(F.outer, ptr))

\* impl Field for &F.
Ref_name(F) == Field_name(F.to)

\* Faulty variant: the forwarding impl hands the parent pointer back.
Ref_project_raw_identity(F, ptr) == ptr

Ref_project_raw(F, ptr) == Field_project_raw(F.to, ptr)
Ref_project_raw_mut(F, ptr) == Field_project_raw_mut(F.to, ptr)

\* impl Field for &mut F.
RefMut_name(F) == Field_name(F.to)
RefMut_project_raw(F, ptr) == Field_project_raw(F.to, ptr)
RefMut_project_raw_mut(F, ptr) == Field_project_raw_mut(F.to, ptr)

\* trait Field: dispatch on the impl.
Field_name(F) ==
  CASE F.tag = "field" -> Derived_name(F)
    [] F.tag = "chain" -> Chain_name(F)
    [] F.tag = "ref" -> Ref_name(F)
    [] F.tag = "refmut" -> RefMut_name(F)

Field_project_raw(F, ptr) ==
  CASE F.tag = "field" -> Derived_project_raw(F, ptr)
    [] F.tag = "chain" -> Chain_project_raw(F, ptr)
    [] F.tag = "ref" -> Ref_project_raw(F, ptr)
    [] F.tag = "refmut" -> RefMut_project_raw(F, ptr)

Field_project_raw_mut(F, ptr) ==
  CASE F.tag = "field" -> Derived_project_raw_mut(F, ptr)
    [] F.tag = "chain" -> Chain_project_raw_mut(F, ptr)
    [] F.tag = "ref" -> Ref_project_raw_mut(F, ptr)
    [] F.tag = "refmut" -> RefMut_project_raw_mut(F, ptr)

\* The hand-written FieldVal of the documentation: Foo's bar.tap.val.
FieldVal_name == <<"bar", "tap", "val">>

\* The two ways to chain Foo.bar, Bar.tap and Tap.val.
FOO_TO_VAL == Chain_new(Chain_new(Foo_bar, Bar_tap), Tap_val)
FOO_TO_VAL_right == Chain_new(Foo_bar, Chain_new(Bar_tap, Tap_val))

(***************************************************************************)
(* Calls on the field capability f.                                        *)
(***************************************************************************)
\* f.chain(g): g a derived field, or the chain of Bar.tap and Tap.val.
ChainField ==
  /\ f.tag # "none"
  /\ \E g \in {Foo_bar, Bar_tap, Tap_val, chain(Bar_tap, Tap_val)} :
       /\ Field_Parent(g) = Field_Type(f)
       /\ f' = chain(f, g)
  /\ out' = NoneCalled
  /\ iter' = NoIter
  /\ UNCHANGED <<descVars, parent, FIELDS>>

\* &f and &mut f.
Borrow ==
  /\ f.tag # "none"
  /\ RefDepth(f) < MaxRefDepth
  /\ f' = Ref(f)
  /\ out' = NoneCalled
  /\ iter' = NoIter
  /\ UNCHANGED <<descVars, parent, FIELDS>>

BorrowMut ==
  /\ f.tag # "none"
  /\ RefDepth(f) < MaxRefDepth
  /\ f' = RefMut(f)
  /\ out' = NoneCalled
  /\ iter' = NoIter
  /\ UNCHANGED <<descVars, parent, FIELDS>>

\* f.name(): a new iterator over the path; again records that an earlier
\* iterator of f had already been handed out.
Name ==
  /\ f.tag # "none"
  /\ iter' = [started |-> TRUE, again |-> iter.started,
              rest |-> Field_name(f), yielded |-> <<>>]
  /\ UNCHANGED <<descVars, parent, out, FIELDS, f>>

\* Iterator::next on the iterator, while it has segments left.
NameNext ==
  /\ iter.started
  /\ iter.rest # <<>>
  /\ iter' = [iter EXCEPT !.rest = Tail(@), !.yielded = Append(@, Head(iter.rest))]
  /\ UNCHANGED <<descVars, parent, out, FIELDS, f>>

FieldProjectRaw ==
  /\ f.tag # "none"
  /\ ~Called("project_raw")
  /\ out' = [out EXCEPT !["project_raw"] = Field_project_raw(f, parent)]
  /\ UNCHANGED <<descVars, parent, capVars>>

FieldProjectRawMut ==
  /\ f.tag # "none"
  /\ ~Called("project_raw_mut")
  /\ out' = [out EXCEPT !["project_raw_mut"] = Field_project_raw_mut(f, parent)]
  /\ UNCHANGED <<descVars, parent, capVars>>

(***************************************************************************)
(* SpecChain: chains grown from Foo::FIELDS.bar, projected from a handle   *)
(* on Foo and named.                                                       *)
(***************************************************************************)
InitChain ==
  /\ d = FieldDescriptor(0, "Sized", "Sized")
  /\ built = "none"
  /\ field = <<0>>
  /\ FIELDS \in FieldSets(MaxFieldOffset)
  /\ parent \in Handles(FIELDS.bar.parent)
  /\ f = Foo_bar
  /\ out = NoneCalled
  /\ iter = NoIter

NextChain ==
  \/ ChainField
  \/ Name
  \/ NameNext
  \/ FieldProjectRaw
  \/ FieldProjectRawMut

SpecChain == InitChain /\ [][NextChain]_vars

(***************************************************************************)
(* SpecRef: references to Foo::FIELDS.bar and to its chain with            *)
(* Bar::FIELDS.tap, nested up to MaxRefDepth.                              *)
(***************************************************************************)
InitRef ==
  /\ d = FieldDescriptor(0, "Sized", "Sized")
  /\ built = "none"
  /\ field = <<0>>
  /\ FIELDS \in FieldSets(0)
  /\ parent \in Handles(FIELDS.bar.parent)
  /\ f \in {Foo_bar, chain(Foo_bar, Bar_tap)}
  /\ out = NoneCalled
  /\ iter = NoIter

NextRef ==
  \/ Borrow
  \/ BorrowMut
  \/ Name
  \/ NameNext
  \/ FieldProjectRaw
  \/ FieldProjectRawMut

SpecRef == InitRef /\ [][NextRef]_vars

(***************************************************************************)
(* Spec: the four projectors of a descriptor made by from_offset, on any   *)
(* parent handle.                                                          *)
(***************************************************************************)
Init ==
  /\ \E o \in Word, pk \in Kinds, tk \in Kinds :
       /\ ValidKinds(pk, tk)
       /\ d = from_offset(o, pk, tk)
  /\ built = "from_offset"
  /\ parent \in Handles(d.parent)
  /\ field = <<0>>
  /\ out = NoneCalled
  /\ FIELDS = NoFields /\ f = NoField /\ iter = NoIter

Next ==
  \/ ProjectRaw
  \/ ProjectRawMut
  \/ ProjectRawUnchecked
  \/ ProjectRawMutUnchecked

Spec == Init /\ [][Next]_vars

(***************************************************************************)
(* SpecConstruct: the two constructors on a pair of handles, followed by   *)
(* the checked projectors of the descriptor they made.                     *)
(***************************************************************************)
InitConstruct ==
  /\ \E pk \in Kinds, tk \in Kinds :
       /\ ValidKinds(pk, tk)
       /\ d = FieldDescriptor(0, pk, tk)
  /\ built = "none"
  /\ parent \in Handles(d.parent)
  /\ field \in Handles(d.type)
  /\ out = NoneCalled
  /\ FIELDS = NoFields /\ f = NoField /\ iter = NoIter

FromOffset ==
  /\ \E o \in Word : d' = from_offset(o, d.parent, d.type)
  /\ built' = "from_offset"
  /\ out' = NoneCalled
  /\ UNCHANGED <<parent, field, capVars>>

FromPointers ==
  /\ \E r \in from_pointers(parent, field, d.parent, d.type) :
       /\ d' = r.desc
       /\ built' = IF r.panicked THEN "panic" ELSE "from_pointers"
  /\ out' = NoneCalled
  /\ UNCHANGED <<parent, field, capVars>>

NextConstruct ==
  \/ FromOffset
  \/ FromPointers
  \/ ProjectRaw
  \/ ProjectRawMut

SpecConstruct == InitConstruct /\ [][NextConstruct]_vars

Overflows == Address(parent) + d.offset >= Modulus

CheckedOps == {"project_raw", "project_raw_mut"}

(***************************************************************************)
(* C1: the checked projectors return, for any parent address a and any     *)
(* offset o, a handle whose address word is (a + o) mod 2^w; when a + o    *)
(* does not overflow, address(result) - a = o.                             *)
(***************************************************************************)
C1_CheckedAddress ==
  \A op \in CheckedOps :
    Called(op) =>
      /\ Address(out[op]) = (Address(parent) + d.offset) % Modulus
      /\ Address(out[op]) \in Word
      /\ ~Overflows => Address(out[op]) - Address(parent) = d.offset

\* Both checked projectors ran on an address near the top of the address
\* space, and the sum wrapped around.
C1_Witness ==
  /\ Called("project_raw") /\ Called("project_raw_mut")
  /\ Overflows
  /\ Address(parent) = Modulus - 1
  /\ Address(out["project_raw"]) < Address(parent)
  /\ Address(out["project_raw_mut"]) = d.offset - 1

(***************************************************************************)
(* C2 (as stated): for every parent handle that carries metadata, each of  *)
(* the four projectors returns a handle whose metadata component equals    *)
(* the parent's metadata.                                                  *)
(***************************************************************************)
C2_Original ==
  \A op \in ProjOps :
    (Called(op) /\ Metadata(parent) # NoMetadata) =>
      Metadata(out[op]) = Metadata(parent)

(***************************************************************************)
(* C2 (amended): each of the four projectors returns a handle as wide as a *)
(* pointer to the field type.  When the field type is unsized, the         *)
(* metadata of the result equals the parent's exactly; when it is Sized,   *)
(* the result is the address word alone and the parent's metadata is       *)
(* dropped.  In both cases nothing but the address word is changed.        *)
(***************************************************************************)
C2_MetadataPreserved ==
  \A op \in ProjOps :
    (Called(op) /\ Metadata(parent) # NoMetadata) =>
      /\ Len(out[op]) = WordsOf(d.type)
      /\ d.type = "Unsized" => Metadata(out[op]) = Metadata(parent)
      /\ d.type = "Sized" => Metadata(out[op]) = NoMetadata

\* All four projectors ran on a fat parent handle with non-zero metadata and
\* a non-zero offset into an unsized field, and all kept the metadata.
C2_Witness ==
  /\ \A op \in ProjOps : Called(op)
  /\ d.type = "Unsized" /\ d.offset > 0
  /\ Metadata(parent) = MaxMeta
  /\ \A op \in ProjOps :
       Metadata(out[op]) = MaxMeta /\ Address(out[op]) # Address(parent)

(***************************************************************************)
(* C7: project_raw_mut(p) and project_raw(p) return the same address and   *)
(* the same metadata; so do the two unchecked projectors whenever          *)
(* address + offset does not overflow.                                     *)
(***************************************************************************)
C7_MutAgreesWithConst ==
  /\ (Called("project_raw") /\ Called("project_raw_mut")) =>
       out["project_raw_mut"] = out["project_raw"]
  /\ (/\ Called("project_raw_unchecked")
      /\ Called("project_raw_mut_unchecked")
      /\ ~Overflows) =>
       out["project_raw_mut_unchecked"] = out["project_raw_unchecked"]

\* Both pairs ran with a non-zero offset that moved the address, once with a
\* wrapping sum for the checked pair.
C7_Witness ==
  /\ \A op \in ProjOps : Called(op)
  /\ ~Overflows /\ d.offset > 0 /\ d.type = "Unsized"
  /\ out["project_raw_mut"] = out["project_raw"]
  /\ out["project_raw_mut_unchecked"] = out["project_raw_unchecked"]
  /\ Address(out["project_raw_mut"]) = Address(parent) + d.offset

(***************************************************************************)
(* C9: when a + o < 2^w the unchecked projectors return exactly what the   *)
(* checked ones return (address and metadata); they can differ only when   *)
(* a + o overflows the address space.                                      *)
(***************************************************************************)
C9_UncheckedAgreesWithChecked ==
  /\ (/\ Called("project_raw_unchecked") /\ Called("project_raw")
      /\ out["project_raw_unchecked"] # out["project_raw"]) => Overflows
  /\ (/\ Called("project_raw_mut_unchecked") /\ Called("project_raw_mut")
      /\ out["project_raw_mut_unchecked"] # out["project_raw_mut"]) => Overflows

\* The largest non-overflowing sum: checked and unchecked agree on it.
C9_Witness ==
  /\ \A op \in ProjOps : Called(op)
  /\ d.offset > 0
  /\ Address(parent) + d.offset = Modulus - 1
  /\ out["project_raw_unchecked"] = out["project_raw"]
  /\ out["project_raw_mut_unchecked"] = out["project_raw_mut"]
  /\ Address(out["project_raw_unchecked"]) = Modulus - 1

(***************************************************************************)
(* C3: from_pointers(parent, field) yields a descriptor whose offset is    *)
(* address(field) - address(parent) (on usize, so modulo 2^w), computed    *)
(* from the address words only: the metadata of either handle has no       *)
(* influence, and for a field at or above its parent the result is the     *)
(* descriptor from_offset builds with the true offset.                     *)
(***************************************************************************)
C3_FromPointersOffset ==
  built = "from_pointers" =>
    /\ d.offset = (Address(field) - Address(parent)) % Modulus
    /\ Address(field) >= Address(parent) =>
         /\ d.offset = Address(field) - Address(parent)
         /\ d = from_offset(Address(field) - Address(parent), d.parent, d.type)
    /\ \A p2 \in Handles(d.parent), f2 \in Handles(d.type) :
         (Address(p2) = Address(parent) /\ Address(f2) = Address(field)) =>
           from_pointers(p2, f2, d.parent, d.type)
             = from_pointers(parent, field, d.parent, d.type)

\* from_pointers ran on two fat handles with different metadata, the field
\* strictly above the parent.
C3_Witness ==
  /\ built = "from_pointers"
  /\ Len(parent) = 2 /\ Len(field) = 2
  /\ Metadata(parent) # Metadata(field)
  /\ Metadata(field) # Address(field) /\ Metadata(parent) # Address(parent)
  /\ Address(field) > Address(parent)
  /\ d.offset = Address(field) - Address(parent)

(***************************************************************************)
(* C10 (as stated): for address(field) >= address(parent), the descriptor  *)
(* from_pointers(parent, field) projects parent back onto the address of   *)
(* field, through project_raw and project_raw_mut, and the result carries  *)
(* the parent's metadata; below the parent the plain usize subtraction     *)
(* defines no offset.                                                      *)
(***************************************************************************)
C10_Original ==
  /\ (built = "from_pointers" /\ Address(field) >= Address(parent)) =>
       \A op \in CheckedOps :
         Called(op) =>
           /\ Address(out[op]) = Address(field)
           /\ Metadata(out[op]) = Metadata(parent)
  /\ Address(field) < Address(parent) =>
       Panicked(d.parent, d.type) \in from_pointers(parent, field, d.parent, d.type)

(***************************************************************************)
(* C10 (amended): for address(field) >= address(parent), the descriptor    *)
(* from_pointers(parent, field) projects parent back onto the address of   *)
(* field, through project_raw and project_raw_mut; when the field type is  *)
(* unsized the result carries the parent's metadata, not the field         *)
(* handle's, and when it is Sized the result is the address alone.  Below  *)
(* the parent the plain usize subtraction defines no single offset: the    *)
(* call may panic, and it panics in no other case.                         *)
(***************************************************************************)
C10_RoundTrip ==
  /\ (built = "from_pointers" /\ Address(field) >= Address(parent)) =>
       \A op \in CheckedOps :
         Called(op) =>
           /\ Address(out[op]) = Address(field)
           /\ d.type = "Unsized" => Metadata(out[op]) = Metadata(parent)
           /\ d.type = "Sized" => out[op] = <<Address(field)>>
  /\ Address(field) < Address(parent) =>
       /\ Panicked(d.parent, d.type)
            \in from_pointers(parent, field, d.parent, d.type)
       /\ Cardinality(from_pointers(parent, field, d.parent, d.type)) > 1
  /\ Address(field) >= Address(parent) =>
       Cardinality(from_pointers(parent, field, d.parent, d.type)) = 1
  /\ built = "panic" => Address(field) < Address(parent)

\* The round trip ran through both projectors on fat handles whose metadata
\* differ: the address is the field's, the metadata the parent's.
C10_Witness ==
  /\ built = "from_pointers"
  /\ Address(field) > Address(parent)
  /\ Len(field) = 2 /\ Metadata(field) # Metadata(parent)
  /\ Called("project_raw") /\ Called("project_raw_mut")
  /\ out["project_raw"] = <<Address(field), Metadata(parent)>>
  /\ out["project_raw_mut"] = <<Address(field), Metadata(parent)>>

\* What the iterator returned by the last f.name() yields in all.
Segments == iter.yielded \o iter.rest

\* The descriptors along the path of a capability, outermost first.
RECURSIVE PathOffsets(_)
PathOffsets(F) ==
  CASE F.tag = "field" -> <<FIELDS[F.name].offset>>
    [] F.tag = "chain" -> PathOffsets(F.outer) \o PathOffsets(F.inner)
    [] OTHER -> PathOffsets(F.to)

\* The address reached from a by adding the offsets one stage at a time,
\* reducing modulo 2^w after each stage.
RECURSIVE StagewiseAddress(_, _)
StagewiseAddress(a, offs) ==
  IF offs = <<>> THEN a
  ELSE StagewiseAddress((a + Head(offs)) % Modulus, Tail(offs))

(***************************************************************************)
(* C4: chain(a, b).project_raw(p) = b.project_raw(a.project_raw(p)), and   *)
(* likewise for project_raw_mut; the wrapping addition is applied at each  *)
(* stage, so the address is ((addr(p) + a.offset) mod 2^w + b.offset)      *)
(* mod 2^w.                                                                *)
(***************************************************************************)
C4_ChainComposition ==
  f.tag = "chain" =>
    /\ Called("project_raw") =>
         /\ out["project_raw"]
              = Field_project_raw(f.inner, Field_project_raw(f.outer, parent))
         /\ Address(out["project_raw"])
              = StagewiseAddress(Address(parent), PathOffsets(f))
    /\ Called("project_raw_mut") =>
         /\ out["project_raw_mut"]
              = Field_project_raw_mut(f.inner, Field_project_raw_mut(f.outer, parent))
         /\ Address(out["project_raw_mut"])
              = StagewiseAddress(Address(parent), PathOffsets(f))
    /\ (f = chain(Foo_bar, Bar_tap) /\ Called("project_raw")) =>
         Address(out["project_raw"])
           = (((Address(parent) + FIELDS.bar.offset) % Modulus)
                + FIELDS.tap.offset) % Modulus

\* Foo.bar chained with Bar.tap, projected both ways from a handle whose
\* address wraps at the first stage.
C4_Witness ==
  /\ f = chain(Foo_bar, Bar_tap)
  /\ Called("project_raw") /\ Called("project_raw_mut")
  /\ FIELDS.bar.offset > 0 /\ FIELDS.tap.offset > 0
  /\ Address(parent) + FIELDS.bar.offset >= Modulus
  /\ Address(out["project_raw"]) < Address(parent)
  /\ out["project_raw_mut"] = out["project_raw"]

(***************************************************************************)
(* C5: chaining is associative: chain(chain(a, b), c) and                  *)
(* chain(a, chain(b, c)) return the same field handle from project_raw and *)
(* project_raw_mut, also where an intermediate addition wraps, and their   *)
(* name() iterators yield the same segments in the same order.             *)
(***************************************************************************)
\* (Grown from Foo.bar by Field::chain, a capability whose Type is u32 is one
\* of the two nestings of Foo.bar, Bar.tap and Tap.val.)
C5_ChainAssociative ==
  Field_Type(f) = "u32" =>
    /\ Called("project_raw") =>
         /\ out["project_raw"] = Field_project_raw(FOO_TO_VAL, parent)
         /\ out["project_raw"] = Field_project_raw(FOO_TO_VAL_right, parent)
    /\ Called("project_raw_mut") =>
         /\ out["project_raw_mut"] = Field_project_raw_mut(FOO_TO_VAL, parent)
         /\ out["project_raw_mut"] = Field_project_raw_mut(FOO_TO_VAL_right, parent)
    /\ iter.started =>
         /\ Segments = Field_name(FOO_TO_VAL)
         /\ Segments = Field_name(FOO_TO_VAL_right)

\* The right-nested chain, projected from a handle whose address wraps on the
\* way, its name iterated to the end.
C5_Witness ==
  /\ f = FOO_TO_VAL_right
  /\ Called("project_raw") /\ Called("project_raw_mut")
  /\ FIELDS.bar.offset > 0 /\ FIELDS.tap.offset > 0 /\ FIELDS.val.offset > 0
  /\ Address(parent) + FIELDS.bar.offset < Modulus
  /\ Address(parent) + FIELDS.bar.offset + FIELDS.tap.offset >= Modulus
  /\ out["project_raw"] = Field_project_raw(FOO_TO_VAL, parent)
  /\ iter.started /\ iter.rest = <<>> /\ Len(iter.yielded) = 3

(***************************************************************************)
(* C6: the name path of chain(outer, inner) is outer.name() followed by    *)
(* inner.name(), one segment per nesting level from the outside in; the    *)
(* chain of Foo.bar, Bar.tap and Tap.val yields exactly "bar", "tap",      *)
(* "val"; every call of name() yields a fresh iterator that starts at the  *)
(* first segment.                                                          *)
(***************************************************************************)
C6_ChainName ==
  iter.started =>
    /\ f.tag = "chain" => Segments = Field_name(f.outer) \o Field_name(f.inner)
    /\ Field_Type(f) = "Bar" => Segments = <<"bar">>
    /\ Field_Type(f) = "Tap" => Segments = <<"bar", "tap">>
    /\ Field_Type(f) = "u32" => Segments = FieldVal_name
    /\ Len(Segments) = Len(PathOffsets(f))
    /\ iter.yielded = SubSeq(Segments, 1, Len(iter.yielded))

\* name() was called again on the left-nested chain after an earlier
\* iterator, and the new iterator has yielded "bar" and holds "tap", "val".
C6_Witness ==
  /\ f = FOO_TO_VAL
  /\ iter.started /\ iter.again
  /\ iter.yielded = <<"bar">>
  /\ iter.rest = <<"tap", "val">>

(***************************************************************************)
(* C8: a shared or exclusive reference to a field capability F forwards:   *)
(* its name(), project_raw(p) and project_raw_mut(p) equal those of F, at  *)
(* any depth of nested references.                                         *)
(***************************************************************************)
C8_ReferencesForward ==
  f.tag \in {"ref", "refmut"} =>
    /\ iter.started =>
         /\ Segments = Field_name(f.to)
         /\ Segments = Field_name(Pointee(f))
    /\ Called("project_raw") =>
         /\ out["project_raw"] = Field_project_raw(f.to, parent)
         /\ out["project_raw"] = Field_project_raw(Pointee(f), parent)
         /\ Address(out["project_raw"])
              = StagewiseAddress(Address(parent), PathOffsets(Pointee(f)))
    /\ Called("project_raw_mut") =>
         /\ out["project_raw_mut"] = Field_project_raw_mut(f.to, parent)
         /\ out["project_raw_mut"] = Field_project_raw_mut(Pointee(f), parent)
         /\ Address(out["project_raw_mut"])
              = StagewiseAddress(Address(parent), PathOffsets(Pointee(f)))

\* An exclusive reference to a shared reference to the chain of Foo.bar and
\* Bar.tap, projected both ways and named.
C8_Witness ==
  /\ f = RefMut(Ref(chain(Foo_bar, Bar_tap)))
  /\ FIELDS.bar.offset > 0 /\ FIELDS.tap.offset > 0
  /\ Called("project_raw") /\ Called("project_raw_mut")
  /\ out["project_raw"] # parent
  /\ out["project_raw_mut"] = out["project_raw"]
  /\ iter.started /\ iter.yielded = <<"bar", "tap">>

====
